---- MODULE Spec2Model ----
(***************************************************************************)
(* Green Travel Planner (src/main.py): a Flask application with one view,  *)
(* index, two error handlers, a random emissions sampler                   *)
(* (get_emissions_data) and an argmin selector (suggest_route).            *)
(*                                                                         *)
(* Floats are modelled as binary floating-point numbers with a mantissa of *)
(* MantissaBits bits and round-to-nearest, ties-to-even (the IEEE-754      *)
(* arithmetic of a Python float, whose mantissa has 53 bits).  A float x   *)
(* is held as the integer x * Scale, Scale = 2^MantissaBits.               *)
(***************************************************************************)
EXTENDS Integers, Sequences, FiniteSets, TLC

VARIABLES
    pc,             \* position of the request being handled
    request,        \* the request in flight: method, path, form fields
    emissions_data, \* local of index: the sampled report (a dict), <<>> before
    optimal_mode,   \* local of index: the selected mode, None before
    exc,            \* the exception caught by index's except clause, None if none
    calls,          \* the calls made while handling the request in flight, in order
    response,       \* the response produced for the request in flight
    log,            \* messages written through app.logger.error for this request
    rngCalls,       \* number of draws taken from the process-wide random source
    served          \* number of requests answered so far

vars == <<pc, request, emissions_data, optimal_mode, exc, calls, response, log,
          rngCalls, served>>

----------------------------------------------------------------------------
(* Bounds of the model *)

\* mantissa width of the modelled floats
MantissaBits == 8
\* number of requests the server answers in one behaviour
MaxRequests == 2
\* largest value of a hand-built report given to suggest_route
MaxVal == 2

----------------------------------------------------------------------------
(* Program constants *)

CarLo == 100
CarHi == 200
BikeLo == 5
BikeHi == 10
PtLo == 20
PtHi == 50
StatusOk == 200
StatusNotFound == 404
StatusMethodNotAllowed == 405
StatusInternalError == 500

\* Python's None, and a Jinja variable that is not in the context
None == "<None>"

Modes == {"car", "bike", "public_transport"}

ValidationMessage == "Start and end locations must be provided."
NotFoundMessage == "Page not found."
InternalErrorMessage == "Internal server error."

----------------------------------------------------------------------------
(* Floating point *)

RECURSIVE Pow2(_)
Pow2(n) == IF n = 0 THEN 1 ELSE 2 * Pow2(n - 1)

Scale == Pow2(MantissaBits)

RECURSIVE BitLen(_)
BitLen(n) == IF n = 0 THEN 0 ELSE 1 + BitLen(n \div 2)

\* The float nearest to the real n / Scale: the mantissa keeps MantissaBits
\* bits, a tie goes to the even mantissa.
FloatRound(n) ==
    IF BitLen(n) <= MantissaBits THEN n
    ELSE LET unit == Pow2(BitLen(n) - MantissaBits)
             q    == n \div unit
             rem  == n % unit
             up   == (2 * rem > unit) \/ (2 * rem = unit /\ q % 2 = 1)
         IN  (IF up THEN q + 1 ELSE q) * unit

\* random.random() returns k / Scale for an integer k in 0 .. Scale - 1; the
\* model draws k among the ends and the middle of that grid.
RandSet == {0, 1, Scale \div 2, Scale - 2, Scale - 1}

\* random.uniform(a, b) with random.random() = k / Scale:
\*     a + (b - a) * random()
\* the product and the sum are each rounded to a float.
uniform_missub(a, b, k) == FloatRound(a * Scale + FloatRound(b * k))

uniform(a, b, k) == FloatRound(a * Scale + FloatRound((b - a) * k))

----------------------------------------------------------------------------
(* Dicts: a Python dict is the sequence of its <<key, value>> items in         *)
(* insertion order, which is the order a dict is iterated in.                  *)

Keys(d) == [i \in 1..Len(d) |-> d[i][1]]

Get(d, key) == LET i == CHOOSE j \in 1..Len(d) : d[j][1] = key IN d[i][2]

\* Python truthiness of a text value that may be None
Truthy(x) == x # None /\ x # ""

----------------------------------------------------------------------------
(* Emissions sampler and route selector *)

get_emissions_data_widebike(route, k1, k2, k3) ==
    << <<"car", uniform(CarLo, CarHi, k1)>>,
       <<"bike", uniform(BikeLo, CarLo, k2)>>,
       <<"public_transport", uniform(PtLo, PtHi, k3)>> >>

\* get_emissions_data(route): the dict literal evaluates its three
\* random.uniform calls in order; k1, k2, k3 are the three draws.
get_emissions_data(route, k1, k2, k3) ==
    << <<"car", uniform(CarLo, CarHi, k1)>>,
       <<"bike", uniform(BikeLo, BikeHi, k2)>>,
       <<"public_transport", uniform(PtLo, PtHi, k3)>> >>

\* min(iterable, key=f) keeps the first item and replaces it only by an item
\* whose key is strictly smaller.
RECURSIVE MinIndex(_, _, _)
MinIndex(d, i, best) ==
    IF i > Len(d) THEN best
    ELSE MinIndex(d, i + 1, IF d[i][2] < d[best][2] THEN i ELSE best)

RECURSIVE LastMinIndex(_, _, _)
LastMinIndex(d, i, best) ==
    IF i > Len(d) THEN best
    ELSE LastMinIndex(d, i + 1, IF d[i][2] <= d[best][2] THEN i ELSE best)

RECURSIVE MaxIndex(_, _, _)
MaxIndex(d, i, best) ==
    IF i > Len(d) THEN best
    ELSE MaxIndex(d, i + 1, IF d[i][2] > d[best][2] THEN i ELSE best)

suggest_route_max(d) == d[MaxIndex(d, 2, 1)][1]

suggest_route_lastmin(d) == d[LastMinIndex(d, 2, 1)][1]

\* suggest_route(emissions_data) = min(emissions_data, key=emissions_data.get)
suggest_route(d) == d[MinIndex(d, 2, 1)][1]

----------------------------------------------------------------------------
(* Templates *)

\* Jinja's round(2) filter: the value in hundredths, nearest, ties to even
Round2(n) ==
    LET num == n * 100
        q   == num \div Scale
        rem == num % Scale
        up  == (2 * rem > Scale) \/ (2 * rem = Scale /\ q % 2 = 1)
    IN  IF up THEN q + 1 ELSE q

EmptyContext ==
    [start |-> None, end |-> None, optimal_mode |-> None, emissions |-> <<>>,
     error_message |-> None]

EmptyPage ==
    [template |-> None, fields |-> <<>>, has_result |-> FALSE, start |-> None,
     end |-> None, optimal_mode |-> None, emissions |-> <<>>,
     error_message |-> None]

IndexHtml_noif(ctx) ==
    [EmptyPage EXCEPT !.template = "index.html",
                      !.fields = <<"start", "end">>,
                      !.has_result = TRUE,
                      !.start = ctx.start,
                      !.end = ctx.end,
                      !.optimal_mode = ctx.optimal_mode,
                      !.emissions = [i \in 1..Len(ctx.emissions) |->
                          <<ctx.emissions[i][1], Round2(ctx.emissions[i][2])>>]]

\* templates/index.html: the form, then the result section under
\* {% if optimal_mode %}
IndexHtml(ctx) ==
    IF Truthy(ctx.optimal_mode)
    THEN [EmptyPage EXCEPT !.template = "index.html",
                           !.fields = <<"start", "end">>,
                           !.has_result = TRUE,
                           !.start = ctx.start,
                           !.end = ctx.end,
                           !.optimal_mode = ctx.optimal_mode,
                           !.emissions = [i \in 1..Len(ctx.emissions) |->
                               <<ctx.emissions[i][1], Round2(ctx.emissions[i][2])>>]]
    ELSE [EmptyPage EXCEPT !.template = "index.html",
                           !.fields = <<"start", "end">>]

\* templates/error.html
ErrorHtml(ctx) ==
    [EmptyPage EXCEPT !.template = "error.html",
                      !.error_message = ctx.error_message]

render_template(name, ctx) ==
    IF name = "index.html" THEN IndexHtml(ctx) ELSE ErrorHtml(ctx)

MakeResponse(status, name, ctx) ==
    [status |-> status, page |-> render_template(name, ctx), context |-> ctx]

NoResponse == [status |-> 0, page |-> EmptyPage, context |-> EmptyContext]

----------------------------------------------------------------------------
(* Requests *)

Methods == {"GET", "POST", "PUT"}
Paths == {"/", "/nonexistent"}
\* a form field: absent (None), empty, blank, or a location
FieldVals == {None, "", " ", "A", "B"}

NoRequest == [method |-> None, path |-> None, form |-> [start |-> None, end |-> None]]

Requests ==
    [method : Methods, path : Paths, form : [start : FieldVals, end : FieldVals]]

TypeOK ==
    /\ request \in Requests \cup {NoRequest}
    /\ optimal_mode \in Modes \cup {None}
    /\ rngCalls \in Nat
    /\ served \in 0..MaxRequests

Init ==
    /\ pc = "idle"
    /\ request = NoRequest
    /\ emissions_data = <<>>
    /\ optimal_mode = None
    /\ exc = None
    /\ calls = <<>>
    /\ response = NoResponse
    /\ log = <<>>
    /\ rngCalls = 0
    /\ served = 0

\* a request arrives at the server
Receive ==
    /\ pc = "idle"
    /\ served < MaxRequests
    /\ \E r \in Requests : request' = r
    /\ pc' = "dispatch"
    /\ UNCHANGED <<emissions_data, optimal_mode, exc, calls, response, log,
                   rngCalls, served>>

----------------------------------------------------------------------------
(* Framework dispatch: @app.route('/', methods=['GET', 'POST']) and the      *)
(* registered error handlers                                                 *)

\* the request matches the route: the view index is called
EnterIndex ==
    /\ pc = "dispatch"
    /\ request.path = "/"
    /\ request.method \in {"GET", "POST"}
    /\ calls' = <<"index">>
    /\ pc' = "index"
    /\ UNCHANGED <<request, emissions_data, optimal_mode, exc, response, log,
                   rngCalls, served>>

\* the path matches the route, the method is not one of its methods: the
\* framework's own 405 answer, no handler of the application is called
MethodNotAllowed ==
    /\ pc = "dispatch"
    /\ request.path = "/"
    /\ request.method \notin {"GET", "POST"}
    /\ response' = [status |-> StatusMethodNotAllowed, page |-> EmptyPage,
                    context |-> EmptyContext]
    /\ pc' = "done"
    /\ UNCHANGED <<request, emissions_data, optimal_mode, exc, calls, log,
                   rngCalls, served>>

not_found_error_200 ==
    /\ pc = "dispatch"
    /\ request.path # "/"
    /\ calls' = <<"not_found_error">>
    /\ response' = MakeResponse(StatusOk, "error.html",
                        [EmptyContext EXCEPT !.error_message = NotFoundMessage])
    /\ pc' = "done"
    /\ UNCHANGED <<request, emissions_data, optimal_mode, exc, log, rngCalls,
                   served>>

\* @app.errorhandler(404): no route matches the path
not_found_error ==
    /\ pc = "dispatch"
    /\ request.path # "/"
    /\ calls' = <<"not_found_error">>
    /\ response' = MakeResponse(StatusNotFound, "error.html",
                        [EmptyContext EXCEPT !.error_message = NotFoundMessage])
    /\ pc' = "done"
    /\ UNCHANGED <<request, emissions_data, optimal_mode, exc, log, rngCalls,
                   served>>

\* @app.errorhandler(500): the framework meets an internal server error
\* while it dispatches the request
internal_error ==
    /\ pc = "dispatch"
    /\ calls' = <<"internal_error">>
    /\ response' = MakeResponse(StatusInternalError, "error.html",
                        [EmptyContext EXCEPT !.error_message = InternalErrorMessage])
    /\ pc' = "done"
    /\ UNCHANGED <<request, emissions_data, optimal_mode, exc, log, rngCalls,
                   served>>

----------------------------------------------------------------------------
(* The view index, one action per step of its body *)

\* else: return render_template('index.html')
IndexGet ==
    /\ pc = "index"
    /\ request.method # "POST"
    /\ calls' = Append(calls, "render_template")
    /\ response' = MakeResponse(StatusOk, "index.html", EmptyContext)
    /\ pc' = "done"
    /\ UNCHANGED <<request, emissions_data, optimal_mode, exc, log, rngCalls,
                   served>>

IndexValidate_and ==
    /\ pc = "index"
    /\ request.method = "POST"
    /\ calls' = Append(calls, "validate")
    /\ IF ~Truthy(request.form.start) /\ ~Truthy(request.form.end)
       THEN /\ exc' = ValidationMessage
            /\ pc' = "except"
       ELSE /\ exc' = exc
            /\ pc' = "sample"
    /\ UNCHANGED <<request, emissions_data, optimal_mode, response, log,
                   rngCalls, served>>

\* start_location = request.form.get('start'); end_location = ...;
\* if not start_location or not end_location: raise ValueError(...)
IndexValidate ==
    /\ pc = "index"
    /\ request.method = "POST"
    /\ calls' = Append(calls, "validate")
    /\ IF ~Truthy(request.form.start) \/ ~Truthy(request.form.end)
       THEN /\ exc' = ValidationMessage
            /\ pc' = "except"
       ELSE /\ exc' = exc
            /\ pc' = "sample"
    /\ UNCHANGED <<request, emissions_data, optimal_mode, response, log,
                   rngCalls, served>>

IndexSample_twice ==
    /\ pc = "sample"
    /\ \E k1, k2, k3 \in RandSet :
          emissions_data' = get_emissions_data(
              <<request.form.start, request.form.end>>, k1, k2, k3)
    /\ rngCalls' = rngCalls + 6
    /\ calls' = calls \o <<"get_emissions_data", "get_emissions_data">>
    /\ pc' = "select"
    /\ UNCHANGED <<request, optimal_mode, exc, response, log, served>>

\* emissions_data = get_emissions_data((start_location, end_location))
IndexSample ==
    /\ pc = "sample"
    /\ \E k1, k2, k3 \in RandSet :
          emissions_data' = get_emissions_data(
              <<request.form.start, request.form.end>>, k1, k2, k3)
    /\ rngCalls' = rngCalls + 3
    /\ calls' = Append(calls, "get_emissions_data")
    /\ pc' = "select"
    /\ UNCHANGED <<request, optimal_mode, exc, response, log, served>>

\* optimal_mode = suggest_route(emissions_data)
IndexSelect ==
    /\ pc = "select"
    /\ optimal_mode' = suggest_route(emissions_data)
    /\ calls' = Append(calls, "suggest_route")
    /\ pc' = "render"
    /\ UNCHANGED <<request, emissions_data, exc, response, log, rngCalls, served>>

IndexRender_resample ==
    /\ pc = "render"
    /\ \E k1, k2, k3 \in RandSet :
          response' = MakeResponse(StatusOk, "index.html",
              [EmptyContext EXCEPT !.start = request.form.start,
                                   !.end = request.form.end,
                                   !.optimal_mode = optimal_mode,
                                   !.emissions = get_emissions_data(
                                       <<request.form.start, request.form.end>>,
                                       k1, k2, k3)])
    /\ calls' = Append(calls, "render_template")
    /\ pc' = "done"
    /\ UNCHANGED <<request, emissions_data, optimal_mode, exc, log, rngCalls,
                   served>>

\* return render_template('index.html', start=..., end=..., optimal_mode=...,
\*                        emissions=emissions_data)
IndexRender ==
    /\ pc = "render"
    /\ response' = MakeResponse(StatusOk, "index.html",
           [EmptyContext EXCEPT !.start = request.form.start,
                                !.end = request.form.end,
                                !.optimal_mode = optimal_mode,
                                !.emissions = emissions_data])
    /\ calls' = Append(calls, "render_template")
    /\ pc' = "done"
    /\ UNCHANGED <<request, emissions_data, optimal_mode, exc, log, rngCalls,
                   served>>

IndexExcept_400 ==
    /\ pc = "except"
    /\ log' = Append(log, <<"An error occurred: ", exc>>)
    /\ response' = MakeResponse(400, "error.html",
                        [EmptyContext EXCEPT !.error_message = exc])
    /\ calls' = Append(calls, "render_template")
    /\ pc' = "done"
    /\ UNCHANGED <<request, emissions_data, optimal_mode, exc, rngCalls, served>>

\* except Exception as e: app.logger.error(f"An error occurred: {e}")
\*     return render_template('error.html', error_message=str(e))
IndexExcept ==
    /\ pc = "except"
    /\ log' = Append(log, <<"An error occurred: ", exc>>)
    /\ response' = MakeResponse(StatusOk, "error.html",
                        [EmptyContext EXCEPT !.error_message = exc])
    /\ calls' = Append(calls, "render_template")
    /\ pc' = "done"
    /\ UNCHANGED <<request, emissions_data, optimal_mode, exc, rngCalls, served>>

\* the response is sent; nothing of the request is kept
Finish ==
    /\ pc = "done"
    /\ pc' = "idle"
    /\ request' = NoRequest
    /\ emissions_data' = <<>>
    /\ optimal_mode' = None
    /\ exc' = None
    /\ calls' = <<>>
    /\ response' = NoResponse
    /\ log' = <<>>
    /\ served' = served + 1
    /\ UNCHANGED rngCalls

Next ==
    \/ Receive
    \/ EnterIndex
    \/ MethodNotAllowed
    \/ not_found_error
    \/ internal_error
    \/ IndexGet
    \/ IndexValidate
    \/ IndexSample
    \/ IndexSelect
    \/ IndexRender
    \/ IndexExcept
    \/ Finish

Spec == Init /\ [][Next]_vars

----------------------------------------------------------------------------
(* suggest_route and get_emissions_data called directly, on any report:      *)
(* the reports are the dicts over the modes, in every insertion order, with  *)
(* values 0 .. MaxVal, and the reports get_emissions_data builds.            *)

KeyOrders ==
    {ks \in UNION {[1..n -> Modes] : n \in 1..Cardinality(Modes)} :
        \A i, j \in DOMAIN ks : i # j => ks[i] # ks[j]}

Reports ==
    UNION {{[i \in DOMAIN ks |-> <<ks[i], vs[i]>>] : vs \in [DOMAIN ks -> 0..MaxVal]} :
           ks \in KeyOrders}

InitSelect ==
    /\ pc = "unit_idle"
    /\ request = NoRequest
    /\ emissions_data = <<>>
    /\ optimal_mode = None
    /\ exc = None
    /\ calls = <<>>
    /\ response = NoResponse
    /\ log = <<>>
    /\ rngCalls = 0
    /\ served = 0

\* the caller hands over a report of its own
UnitGiven ==
    /\ pc = "unit_idle"
    /\ served < MaxRequests
    /\ \E d \in Reports : emissions_data' = d
    /\ pc' = "unit_given"
    /\ UNCHANGED <<request, optimal_mode, exc, calls, response, log, rngCalls,
                   served>>

\* the caller takes the report from get_emissions_data
UnitSample ==
    /\ pc = "unit_idle"
    /\ served < MaxRequests
    /\ \E k1, k2, k3 \in RandSet, a, b \in {"A", "B"} :
          emissions_data' = get_emissions_data(<<a, b>>, k1, k2, k3)
    /\ rngCalls' = rngCalls + 3
    /\ pc' = "unit_sampled"
    /\ UNCHANGED <<request, optimal_mode, exc, calls, response, log, served>>

UnitSelect ==
    /\ pc \in {"unit_given", "unit_sampled"}
    /\ optimal_mode = None
    /\ optimal_mode' = suggest_route(emissions_data)
    /\ UNCHANGED <<pc, request, emissions_data, exc, calls, response, log,
                   rngCalls, served>>

UnitReturn ==
    /\ pc \in {"unit_given", "unit_sampled"}
    /\ optimal_mode # None
    /\ pc' = "unit_idle"
    /\ emissions_data' = <<>>
    /\ optimal_mode' = None
    /\ served' = served + 1
    /\ UNCHANGED <<request, exc, calls, response, log, rngCalls>>

NextSelect == UnitGiven \/ UnitSample \/ UnitSelect \/ UnitReturn

SpecSelect == InitSelect /\ [][NextSelect]_vars

----------------------------------------------------------------------------
(* Properties *)

Values(d) == {d[i][2] : i \in 1..Len(d)}

HasKey(d, key) == \E i \in 1..Len(d) : d[i][1] = key

\* index answered the request in flight
IndexAnswered == pc = "done" /\ calls # <<>> /\ calls[1] = "index"

PostToIndex == IndexAnswered /\ request.method = "POST"

FieldsGiven == Truthy(request.form.start) /\ Truthy(request.form.end)

\* C1: for every non-empty report, suggest_route returns a key of the report
\* whose value is <= the value of every key of the report.
C1_SelectsMinimum ==
    (pc \in {"unit_given", "unit_sampled"} /\ optimal_mode # None) =>
        /\ HasKey(emissions_data, optimal_mode)
        /\ \A v \in Values(emissions_data) : Get(emissions_data, optimal_mode) <= v

C1_Witness ==
    /\ pc = "unit_given"
    /\ optimal_mode # None
    /\ Len(emissions_data) = 3
    /\ Cardinality(Values(emissions_data)) = 3
    /\ optimal_mode = emissions_data[3][1]

\* C2 as stated: every report of get_emissions_data has car in [100, 200),
\* bike in [5, 10), public_transport in [20, 50), the upper bounds excluded.
C2_HalfOpenRanges ==
    emissions_data # <<>> =>
        /\ CarLo * Scale <= Get(emissions_data, "car")
        /\ Get(emissions_data, "car") < CarHi * Scale
        /\ BikeLo * Scale <= Get(emissions_data, "bike")
        /\ Get(emissions_data, "bike") < BikeHi * Scale
        /\ PtLo * Scale <= Get(emissions_data, "public_transport")
        /\ Get(emissions_data, "public_transport") < PtHi * Scale

\* C2 amended: every report of get_emissions_data has car in [100, 200],
\* bike in [5, 10], public_transport in [20, 50]; rounding can return the
\* upper bound itself.
C2_ClosedRanges ==
    emissions_data # <<>> =>
        /\ Keys(emissions_data) = <<"car", "bike", "public_transport">>
        /\ CarLo * Scale <= Get(emissions_data, "car")
        /\ Get(emissions_data, "car") <= CarHi * Scale
        /\ BikeLo * Scale <= Get(emissions_data, "bike")
        /\ Get(emissions_data, "bike") <= BikeHi * Scale
        /\ PtLo * Scale <= Get(emissions_data, "public_transport")
        /\ Get(emissions_data, "public_transport") <= PtHi * Scale

C2_Witness ==
    /\ pc = "select"
    /\ emissions_data # <<>>
    /\ Get(emissions_data, "car") = CarHi * Scale
    /\ Get(emissions_data, "bike") = BikeLo * Scale
    /\ Get(emissions_data, "public_transport") = PtHi * Scale

\* C3: a POST to / whose start or end field is empty or absent is answered
\* with the error page carrying exactly the validation message, and never
\* with the result section.
C3_ValidationError ==
    (PostToIndex /\ ~FieldsGiven) =>
        /\ response.page.template = "error.html"
        /\ response.page.error_message = ValidationMessage
        /\ ~response.page.has_result

C3_Witness ==
    /\ PostToIndex
    /\ request.form.start = "A"
    /\ request.form.end = ""
    /\ response.page.error_message = ValidationMessage

\* C4: a POST to / with both fields non-empty is answered with status 200 and
\* the result section: start and end as submitted, the three entries car,
\* bike, public_transport of the sampled report, and the mode suggest_route
\* selects from that same report.
C4_SuccessfulPost ==
    (PostToIndex /\ FieldsGiven) =>
        /\ response.status = StatusOk
        /\ response.page.template = "index.html"
        /\ response.page.has_result
        /\ response.page.start = request.form.start
        /\ response.page.end = request.form.end
        /\ response.context.emissions = emissions_data
        /\ Len(response.page.emissions) = 3
        /\ {response.page.emissions[i][1] : i \in 1..3} = Modes
        /\ \A i \in 1..3 :
              response.page.emissions[i] =
                  <<emissions_data[i][1], Round2(emissions_data[i][2])>>
        /\ response.page.optimal_mode = suggest_route(response.context.emissions)

C4_Witness ==
    /\ PostToIndex
    /\ request.form.start = "A"
    /\ request.form.end = "B"
    /\ response.page.has_result
    /\ response.page.start = "A"
    /\ response.page.end = "B"
    /\ response.page.optimal_mode \in Modes

\* C5: a GET to / is answered with status 200 and the form with its start and
\* end fields, without the result section, whatever was handled before.
C5_GetRendersFormOnly ==
    (IndexAnswered /\ request.method = "GET") =>
        /\ response.status = StatusOk
        /\ response.page.template = "index.html"
        /\ response.page.fields = <<"start", "end">>
        /\ ~response.page.has_result
        /\ response.page.optimal_mode = None
        /\ response.page.emissions = <<>>

C5_Witness ==
    /\ IndexAnswered
    /\ request.method = "GET"
    /\ response.page.template = "index.html"
    /\ served > 0
    /\ rngCalls > 0

\* C6: an exception raised while index handles a request is caught inside
\* index, and the answer is the error page with the exception's message and
\* status 200, never a 4xx or 5xx status.
C6_ExceptionCaught ==
    exc # None =>
        /\ pc \in {"except", "done"}
        /\ calls[1] = "index"
        /\ pc = "done" =>
              /\ response.status = StatusOk
              /\ response.page.template = "error.html"
              /\ response.page.error_message = exc
              /\ log = << <<"An error occurred: ", exc>> >>

C6_Witness ==
    /\ pc = "done"
    /\ exc = ValidationMessage
    /\ response.status = StatusOk
    /\ response.page.template = "error.html"

\* C7: a request whose path matches no route is answered with the error page
\* "Page not found." and status 404; an internal server error of the
\* framework is answered with the error page "Internal server error." and
\* status 500.
C7_ErrorHandlers ==
    pc = "done" =>
        /\ (request.path # "/" /\ calls # <<"internal_error">>) =>
              /\ calls = <<"not_found_error">>
              /\ response.status = StatusNotFound
              /\ response.page.template = "error.html"
              /\ response.page.error_message = NotFoundMessage
        /\ calls = <<"internal_error">> =>
              /\ response.status = StatusInternalError
              /\ response.page.template = "error.html"
              /\ response.page.error_message = InternalErrorMessage

C7_Witness ==
    /\ pc = "done"
    /\ request.method = "GET"
    /\ request.path = "/nonexistent"
    /\ response.status = StatusNotFound

\* the calls index makes for a request, in order
ExpectedCalls(r) ==
    IF r.method # "POST" THEN <<"index", "render_template">>
    ELSE IF ~(Truthy(r.form.start) /\ Truthy(r.form.end))
         THEN <<"index", "validate", "render_template">>
         ELSE <<"index", "validate", "get_emissions_data", "suggest_route",
                "render_template">>

IsPrefix(s, t) == Len(s) <= Len(t) /\ \A i \in 1..Len(s) : s[i] = t[i]

C8_CallOrder ==
    (calls # <<>> /\ calls[1] = "index") =>
        /\ IsPrefix(calls, ExpectedCalls(request))
        /\ pc = "done" => calls = ExpectedCalls(request)

C8_DrawsOnlyWhenSampling ==
    rngCalls' # rngCalls =>
        /\ rngCalls' = rngCalls + 3
        /\ request.method = "POST"
        /\ FieldsGiven
        /\ calls = <<"index", "validate">>
        /\ calls' = <<"index", "validate", "get_emissions_data">>

\* C8: within one request to / the steps run in the order validate, sample,
\* select, render; get_emissions_data is called at most once, only on a POST
\* whose two fields were found non-empty, suggest_route only after it; a GET
\* and a POST that fails validation call neither and draw nothing from the
\* random source.
C8_StepOrder == []C8_CallOrder /\ [][C8_DrawsOnlyWhenSampling]_vars

C8_Witness ==
    /\ pc = "done"
    /\ calls = <<"index", "validate", "get_emissions_data", "suggest_route",
                 "render_template">>
    /\ rngCalls = 3

\* C9: when several keys tie for the minimum, suggest_route returns the one
\* that comes first in the dict's iteration order; a report built by
\* get_emissions_data iterates car, bike, public_transport.
C9_FirstMinimumWins ==
    /\ (pc \in {"unit_given", "unit_sampled"} /\ optimal_mode # None) =>
          LET m     == CHOOSE v \in Values(emissions_data) :
                           \A w \in Values(emissions_data) : v <= w
              ties  == {i \in 1..Len(emissions_data) : emissions_data[i][2] = m}
              first == CHOOSE i \in ties : \A j \in ties : i <= j
          IN  optimal_mode = emissions_data[first][1]
    /\ pc = "unit_sampled" =>
          Keys(emissions_data) = <<"car", "bike", "public_transport">>

C9_Witness ==
    /\ pc = "unit_given"
    /\ optimal_mode # None
    /\ Len(emissions_data) = 3
    /\ emissions_data[1][2] > emissions_data[2][2]
    /\ emissions_data[2][2] = emissions_data[3][2]
    /\ optimal_mode = emissions_data[2][1]

\* C10: every bike value is below every public_transport value, which is
\* below every car value, so no two modes tie and the mode selected and
\* rendered by a successful POST to / is always bike.
C10_AlwaysBike ==
    /\ emissions_data # <<>> =>
          /\ Get(emissions_data, "bike") < Get(emissions_data, "public_transport")
          /\ Get(emissions_data, "public_transport") < Get(emissions_data, "car")
    /\ optimal_mode # None => optimal_mode = "bike"
    /\ response.page.has_result => response.page.optimal_mode = "bike"

C10_Witness ==
    /\ PostToIndex
    /\ response.page.has_result
    /\ response.page.optimal_mode = "bike"
    /\ Get(emissions_data, "bike") = BikeHi * Scale
    /\ Get(emissions_data, "public_transport") = PtLo * Scale

====
